---- MODULE Spec2Model ----
(***************************************************************************)
(* Model of the two iLearning -> ICS scrapers                              *)
(*   src/ilearning_ics_kit/ilearning_to_ics.py       (variant "moodle")    *)
(*   src/ilearning_ics_kit/ilearning_to_ics_nchu.py  (variant "nchu")      *)
(*                                                                         *)
(* A text is a sequence of atoms.  The atoms are the pieces the regular    *)
(* expressions of the source tell apart:                                   *)
(*   "due"      the English label, any case        "date"  the word "date" *)
(*   "jiezhi"   U+622A U+6B62    "jiaojiao"  U+7E73 U+4EA4                 *)
(*   "qixian"   U+671F U+9650    "daoqi"     U+5230 U+671F                 *)
(*   "D1","D2"  date-shaped tokens YYYY-M-D [H:MM]                         *)
(*   "V"        a date in words ("20 September 2025, 23:59")               *)
(*   "x"        any other word    "sp"  white space                        *)
(* <<"jiaojiao","qixian">> is the four-character label of the nchu regex.  *)
(***************************************************************************)
EXTENDS Integers, Sequences, FiniteSets, TLC

VARIABLES
    variant,      \* which script runs: "moodle" | "nchu"
    row,          \* SpecRow: the <tr> under extraction [a, tds]
    rpc,          \* SpecRow: position inside the row loop body
    due_text,     \* SpecRow: local due_text of the loop body
    parse_arg,    \* SpecRow: the text handed to dateutil's parser (NoText: none)
    row_out,      \* SpecRow: what the row appended to events (<<>>: nothing)
    DEEP_FETCH,   \* env DEEP_FETCH == "1" (nchu only)
    COURSES,      \* COURSE_IDS / the course ids of HOMEWORK_URLS
    pc,           \* position of main()
    login_r,      \* login(): the response r the form is read from
    fb,           \* login() of nchu: index of the next fallback path
    i,            \* main(): index of the course / listing page in turn
    items,        \* main() of nchu: items of the page in turn
    enriched,     \* main() of nchu: the deep-fetch loop's enriched list
    all_events,   \* main(): all_events
    cal,          \* the Calendar's events
    out_file,     \* the .ics file: [exists, events]
    crash_at,     \* where an uncaught exception ended the run ("" : nowhere)
    auth_failed,  \* history: the login page was unreachable or the login was refused
    course_log,   \* history: per course in turn, [ok, events] of its page fetch
    dlog,         \* history: per candidate of the page in turn, its detail request
    uid_in,       \* SpecUid: two (url, title) pairs
    uid_out       \* SpecUid: their uids (<<>>: not computed yet)

rowvars == <<row, rpc, due_text, parse_arg, row_out>>

mainvars ==
    <<DEEP_FETCH, COURSES, pc, login_r, fb, i, items, enriched, all_events, cal,
      out_file, crash_at, auth_failed, course_log, dlog>>

uidvars == <<uid_in, uid_out>>

vars == <<variant, rowvars, mainvars, uidvars>>

\* ------------------------------------------------------------------ bounds
MaxCells == 2
MaxCourses == 2
MaxRows == 2
MaxStr == 2

\* ------------------------------------------------------------------ values
\* Python's None for a datetime, a failed re.search, a <tr> without <a href>
None == [d |-> 0, tz |-> "none"]
NoText == <<"#nomatch">>
NoLink == [present |-> FALSE, href |-> <<>>, text |-> <<>>]
Variants == {"moodle", "nchu"}

DateShaped == {"D1", "D2"}
DateAtoms == {"D1", "D2", "V"}

\* ------------------------------------------------------------------ text helpers
\* re.search(r"(due|jiezhi|jiaojiao|qixian|daoqi)", td_text, re.I)
MoodleLabels == {"due", "jiezhi", "jiaojiao", "qixian", "daoqi"}

HasLabelMoodle(t) == \E k \in 1..Len(t) : t[k] \in MoodleLabels

\* re.search(r"(jiaojiaoqixian|jiezhi|daoqi|Due)", td_text, re.I)
NchuLabelAt(t, k) ==
    \/ t[k] \in {"jiezhi", "daoqi", "due"}
    \/ t[k] = "jiaojiao" /\ k < Len(t) /\ t[k + 1] = "qixian"

HasLabelNchu(t) == \E k \in 1..Len(t) : NchuLabelAt(t, k)

\* " ".join(tds)
RECURSIVE JoinCells(_)
JoinCells(tds) ==
    IF tds = <<>> THEN <<>>
    ELSE IF Len(tds) = 1 THEN tds[1]
    ELSE tds[1] \o <<"sp">> \o JoinCells(Tail(tds))

\* re.search(date regex, text): the first date-shaped token, NoText when none
RECURSIVE FirstDateToken(_)
FirstDateToken(t) ==
    IF t = <<>> THEN NoText
    ELSE IF t[1] \in DateShaped THEN <<t[1]>>
    ELSE FirstDateToken(Tail(t))

\* dateutil's parser.parse(text, fuzzy=True): words that are no date are skipped;
\* a text with no date, or with more date values than one date holds, raises.
\* The result is a naive datetime.
DatesOf(t) == SelectSeq(t, LAMBDA a : a \in DateAtoms)

DateValue(a) == IF a = "D1" THEN 1 ELSE IF a = "D2" THEN 2 ELSE 3

FuzzyParse(t) ==
    IF Len(DatesOf(t)) = 1
    THEN [d |-> DateValue(DatesOf(t)[1]), tz |-> "naive"]
    ELSE None

\* dt.replace(tzinfo=LOCAL_TZ) if naive, else dt.astimezone(LOCAL_TZ)
Localize(dt) == [d |-> dt.d, tz |-> "local"]

\* re.sub(r"^(Due date|jiezhi|jiaojiaoqixian|daoqi)[::]?\s*", "", due_text, flags=re.I)
MoodleStripPrefix(t) ==
    IF Len(t) >= 2 /\ t[1] = "due" /\ t[2] = "date" THEN SubSeq(t, 3, Len(t))
    ELSE IF Len(t) >= 1 /\ t[1] = "jiezhi" THEN Tail(t)
    ELSE IF Len(t) >= 2 /\ t[1] = "jiaojiao" /\ t[2] = "qixian" THEN SubSeq(t, 3, Len(t))
    ELSE IF Len(t) >= 1 /\ t[1] = "daoqi" THEN Tail(t)
    ELSE t

\* re.sub(r"(jiaojiaoqixian|jiezhi|daoqi|Due|jiezhishijian)[::]?\s*", "", text, flags=re.I)
RECURSIVE NchuStripLabels(_)
NchuStripLabels(t) ==
    IF t = <<>> THEN <<>>
    ELSE IF Len(t) >= 2 /\ t[1] = "jiaojiao" /\ t[2] = "qixian"
         THEN NchuStripLabels(SubSeq(t, 3, Len(t)))
    ELSE IF t[1] \in {"jiezhi", "daoqi", "due"} THEN NchuStripLabels(Tail(t))
    ELSE <<t[1]>> \o NchuStripLabels(Tail(t))

\* parse_due(text)
parse_due(text) ==
    LET txt == NchuStripLabels(text)
        dt == FuzzyParse(txt)
        m == FirstDateToken(txt)
    IN IF dt # None THEN dt
       ELSE IF m # NoText THEN FuzzyParse(m)
       ELSE None

\* ------------------------------------------------------------------ URLs
\* A URL or href is a sequence of path pieces; BASE is the site's origin.
BASE == <<"https://site">>

\* "mod/assign" in a["href"]
IsAssignHref(h) == \E k \in 1..Len(h) : h[k] = "mod/assign/view.php"

\* the href test of parse_list_page: "/homework/content" or else "/homework" in href
IsHomeworkHref(h) ==
    LET content == \E k \in 1..Len(h) : h[k] = "/course/homework/content"
        homework == \E k \in 1..Len(h) :
                        h[k] \in {"/course/homework/content", "/course/homework"}
    IN IF ~content THEN homework ELSE TRUE

\* urljoin(BASE + "/", a["href"].lstrip("/")) and urljoin(list_url, href), for a
\* site-relative href: the origin followed by the href's path
UrlJoin(base, h) == <<base[1]>> \o h

\* to_abs(url_or_path)
to_abs(u) == IF Len(u) > 0 /\ u[1] = BASE[1] THEN u ELSE UrlJoin(BASE, u)

\* get_text(strip=True): leading and trailing white space removed
RECURSIVE LStrip(_)
LStrip(t) == IF t # <<>> /\ t[1] = "sp" THEN LStrip(Tail(t)) ELSE t

RECURSIVE RStrip(_)
RStrip(t) ==
    IF t # <<>> /\ t[Len(t)] = "sp" THEN RStrip(SubSeq(t, 1, Len(t) - 1)) ELSE t

Strip(t) == RStrip(LStrip(t))

\* ------------------------------------------------------------------ row extraction
\* a = tr.find("a", href=True); the row is skipped unless the link is an assignment's
RowAccepted(v, r) ==
    /\ r.a.present
    /\ IF v = "moodle" THEN IsAssignHref(r.a.href) ELSE IsHomeworkHref(r.a.href)

\* for td_text in reversed(tds): if re.search(labels, td_text): due_text = td_text; break
RECURSIVE MoodleDueCell(_)
MoodleDueCell(tds) ==
    IF tds = <<>> THEN <<>>
    ELSE IF HasLabelMoodle(tds[Len(tds)]) THEN tds[Len(tds)]
    ELSE MoodleDueCell(SubSeq(tds, 1, Len(tds) - 1))

\* for td_text in tds[::-1]: if re.search(labels, td_text): due_text = td_text; break
RECURSIVE NchuDueCell(_)
NchuDueCell(tds) ==
    IF tds = <<>> THEN <<>>
    ELSE IF HasLabelNchu(tds[Len(tds)]) THEN tds[Len(tds)]
    ELSE NchuDueCell(SubSeq(tds, 1, Len(tds) - 1))

\* mutant: the scan runs from the first cell, not from the last
RECURSIVE FirstLabelCell(_, _)
FirstLabelCell(v, tds) ==
    IF tds = <<>> THEN <<>>
    ELSE IF (IF v = "moodle" THEN HasLabelMoodle(tds[1]) ELSE HasLabelNchu(tds[1]))
         THEN tds[1]
    ELSE FirstLabelCell(v, Tail(tds))

DueCell(v, tds) == IF v = "moodle" THEN MoodleDueCell(tds) ELSE NchuDueCell(tds)

\* mutant: the fallback keeps the whole row text, not its first date token
MoodleFallbackWholeRow(dtext, tds) == IF dtext # <<>> THEN dtext ELSE JoinCells(tds)

\* if not due_text: the first date-ish token of the joined row, "" when none
MoodleFallback(dtext, tds) ==
    IF dtext # <<>> THEN dtext
    ELSE LET m == FirstDateToken(JoinCells(tds))
         IN IF m # NoText THEN m ELSE <<>>

\* if not due_text: due_text = row_text
NchuFallback(dtext, tds) == IF dtext # <<>> THEN dtext ELSE JoinCells(tds)

Fallback(v, dtext, tds) ==
    IF v = "moodle" THEN MoodleFallback(dtext, tds) ELSE NchuFallback(dtext, tds)

\* the text dateutil's parser is first called with (NoText: it is not called)
ParserInput(v, dtext) ==
    IF v = "moodle"
    THEN IF dtext = <<>> THEN NoText ELSE MoodleStripPrefix(dtext)
    ELSE NchuStripLabels(dtext)

\* the rest of the loop body of parse_assign_table: what the row appends to events
MoodleEmit(r, dtext, course_id) ==
    IF dtext = <<>> THEN <<>>
    ELSE LET dt == FuzzyParse(MoodleStripPrefix(dtext))
         IN IF dt = None THEN <<>>
            ELSE << [title |-> Strip(r.a.text),
                     due_at |-> Localize(dt),
                     url |-> UrlJoin(BASE, r.a.href),
                     course_id |-> course_id] >>

\* the rest of the loop body of parse_list_page: events.append((title, dt, detail_url))
NchuEmit(r, dtext, list_url) ==
    << [title |-> Strip(r.a.text),
        due_at |-> parse_due(dtext),
        url |-> UrlJoin(list_url, r.a.href)] >>

\* ------------------------------------------------------------------ inputs
\* the label texts a cell can open with, and what can follow the label
LabelTexts ==
    { <<"due">>, <<"due", "date">>, <<"jiezhi">>, <<"jiaojiao">>, <<"qixian">>,
      <<"daoqi">>, <<"jiaojiao", "qixian">> }

CellTexts ==
    { <<>>, <<"x">>, <<"V">>, <<"D1">>, <<"D2">> }
    \cup { l \o b : l \in LabelTexts, b \in { <<>>, <<"D1">> } }

SeqsUpTo(S, n) == UNION { [1..k -> S] : k \in 0..n }

RowLinks ==
    { NoLink }
    \cup { [present |-> TRUE, href |-> h, text |-> <<"T">>] :
             h \in { <<"mod/assign/view.php", "7">>,
                     <<"/course/homework/content", "7">>,
                     <<"/user/profile">> } }

\* ------------------------------------------------------------------ SpecRow
\* One <tr> through the loop body of parse_assign_table / parse_list_page.
RowIdle ==
    /\ row = [a |-> NoLink, tds |-> <<>>]
    /\ rpc = "idle"
    /\ due_text = <<>>
    /\ parse_arg = NoText
    /\ row_out = <<>>

MainIdle ==
    /\ DEEP_FETCH = FALSE
    /\ COURSES = <<>>
    /\ pc = "idle"
    /\ login_r = "none"
    /\ fb = 1
    /\ i = 1
    /\ items = <<>>
    /\ enriched = <<>>
    /\ all_events = <<>>
    /\ cal = {}
    /\ out_file = [exists |-> FALSE, events |-> {}]
    /\ crash_at = ""
    /\ auth_failed = FALSE
    /\ course_log = <<>>
    /\ dlog = <<>>

UidIdle ==
    /\ uid_in = <<>>
    /\ uid_out = <<>>

RowInit ==
    /\ MainIdle
    /\ UidIdle
    /\ variant \in Variants
    /\ row \in [a : RowLinks, tds : SeqsUpTo(CellTexts, MaxCells)]
    /\ rpc = "link"
    /\ due_text = <<>>
    /\ parse_arg = NoText
    /\ row_out = <<>>

\* a = tr.find("a", href=True); if not a or <href test fails>: continue
RowLink ==
    /\ rpc = "link"
    /\ rpc' = IF RowAccepted(variant, row) THEN "scan" ELSE "skipped"
    /\ UNCHANGED <<variant, row, due_text, parse_arg, row_out, mainvars, uidvars>>

\* the reversed scan of the cells for a labelled cell
RowScan ==
    /\ rpc = "scan"
    /\ due_text' = DueCell(variant, row.tds)
    /\ rpc' = "fallback"
    /\ UNCHANGED <<variant, row, parse_arg, row_out, mainvars, uidvars>>

\* if not due_text: ...
RowFallback ==
    /\ rpc = "fallback"
    /\ due_text' = Fallback(variant, due_text, row.tds)
    /\ rpc' = "parse"
    /\ UNCHANGED <<variant, row, parse_arg, row_out, mainvars, uidvars>>

\* strip the label, parse, append
RowParse ==
    /\ rpc = "parse"
    /\ parse_arg' = ParserInput(variant, due_text)
    /\ row_out' = IF variant = "moodle" THEN MoodleEmit(row, due_text, <<"7">>)
                  ELSE NchuEmit(row, due_text, BASE \o <<"/course/homework", "7">>)
    /\ rpc' = "done"
    /\ UNCHANGED <<variant, row, due_text, mainvars, uidvars>>

RowNext == RowLink \/ RowScan \/ RowFallback \/ RowParse

SpecRow == RowInit /\ [][RowNext]_vars

\* ------------------------------------------------------------------ claims on SpecRow
\* The five label keywords of the specification's glossary.
FiveKeywords == {"due", "jiezhi", "jiaojiao", "qixian", "daoqi"}

CellHasKeyword(c) == \E k \in 1..Len(c) : c[k] \in FiveKeywords

\* the label pattern of the nchu script: three keywords and the four-character label
CellHasNchuLabel(c) ==
    \E k \in 1..Len(c) :
        \/ c[k] \in {"due", "jiezhi", "daoqi"}
        \/ k < Len(c) /\ c[k] = "jiaojiao" /\ c[k + 1] = "qixian"

CellHasVariantLabel(c) ==
    IF variant = "moodle" THEN CellHasKeyword(c) ELSE CellHasNchuLabel(c)

KeywordCells == {k \in 1..Len(row.tds) : CellHasKeyword(row.tds[k])}

VariantLabelCells == {k \in 1..Len(row.tds) : CellHasVariantLabel(row.tds[k])}

MaxOf(S) == CHOOSE k \in S : \A m \in S : m <= k

MinOf(S) == CHOOSE k \in S : \A m \in S : k <= m

AfterScan == rpc \in {"fallback", "parse", "done"}

\* C6 as stated: in both variants, a row with a cell containing any of the five
\* keywords gets the rightmost such cell as its due text.
C6_RightmostFiveKeywordCell ==
    (AfterScan /\ KeywordCells # {})
        => due_text = row.tds[MaxOf(KeywordCells)]

\* C6 amended: each variant selects the rightmost cell that matches its own label
\* pattern (moodle: the five keywords; nchu: due, jiezhi, daoqi and the
\* four-character label jiaojiao-qixian, so jiaojiao or qixian alone is no label).
C6_RightmostVariantLabelCell ==
    (AfterScan /\ VariantLabelCells # {})
        => due_text = row.tds[MaxOf(VariantLabelCells)]

C6_Witness ==
    /\ rpc = "done"
    /\ variant = "nchu"
    /\ Cardinality(VariantLabelCells) = 2
    /\ row.tds[1] # row.tds[2]
    /\ due_text = row.tds[2]
    /\ Len(row_out) = 1

\* the joined row text and its date-shaped tokens, as the specification words them
RowText == JoinCells(row.tds)

DateTokenAt == {k \in 1..Len(RowText) : RowText[k] \in {"D1", "D2"}}

RowDate == IF row_out = <<>> THEN None ELSE row_out[1].due_at

\* the fallback of section 4.1: exactly the first date-shaped token goes to the
\* parser; without a token the due text is absent and no date comes out of the row
TokenFallback ==
    IF DateTokenAt # {}
    THEN /\ parse_arg = <<RowText[MinOf(DateTokenAt)]>>
         /\ RowDate # None
         /\ RowDate.d = DateValue(RowText[MinOf(DateTokenAt)])
    ELSE /\ due_text = <<>>
         /\ parse_arg = NoText
         /\ RowDate = None

\* C9 as stated: whenever no cell of an accepted row holds a label keyword, exactly
\* the first date-shaped token of the row goes to the parser, and a row without a
\* token has no due text and yields no date.
C9_TokenFallbackOnly ==
    (rpc = "done" /\ KeywordCells = {})
        => IF DateTokenAt # {}
           THEN parse_arg = <<RowText[MinOf(DateTokenAt)]>>
           ELSE due_text = <<>> /\ RowDate = None

\* C9 amended: the moodle script does as stated; the nchu script, when no cell
\* matches its label pattern, hands the whole joined row text to parse_due, so a
\* date can be parsed from any part of the row.
C9_FallbackPerVariant ==
    /\ (rpc = "done" /\ variant = "moodle" /\ KeywordCells = {}) => TokenFallback
    /\ (rpc = "done" /\ variant = "nchu" /\ VariantLabelCells = {})
           => /\ due_text = RowText
              /\ parse_arg = RowText
              /\ RowDate = parse_due(RowText)

C9_Witness ==
    /\ rpc = "done"
    /\ variant = "moodle"
    /\ KeywordCells = {}
    /\ Cardinality(DateTokenAt) = 2
    /\ RowText[MinOf(DateTokenAt)] # RowText[MaxOf(DateTokenAt)]
    /\ parse_arg = <<RowText[MinOf(DateTokenAt)]>>
    /\ RowDate # None

\* ------------------------------------------------------------------ pages
\* parse_assign_table(html, course_id): the loop over the table's rows
RECURSIVE parse_assign_table(_, _)
parse_assign_table(rows, course_id) ==
    IF rows = <<>> THEN <<>>
    ELSE LET r == rows[1]
             evs == IF RowAccepted("moodle", r)
                    THEN MoodleEmit(r, MoodleFallback(MoodleDueCell(r.tds), r.tds),
                                    course_id)
                    ELSE <<>>
         IN evs \o parse_assign_table(Tail(rows), course_id)

\* parse_list_page(html, list_url): the loop over soup.select("table tr")
RECURSIVE parse_list_page(_, _)
parse_list_page(rows, list_url) ==
    IF rows = <<>> THEN <<>>
    ELSE LET r == rows[1]
             evs == IF RowAccepted("nchu", r)
                    THEN NchuEmit(r, NchuFallback(NchuDueCell(r.tds), r.tds), list_url)
                    ELSE <<>>
         IN evs \o parse_list_page(Tail(rows), list_url)

\* parse_detail_due(html): the page is its text blocks; the blocks that hold a label
\* are joined, or the whole page text when none does
parse_detail_due(blocks) ==
    LET candidates == SelectSeq(blocks, HasLabelNchu)
    IN parse_due(JoinCells(IF candidates # <<>> THEN candidates ELSE blocks))

\* ------------------------------------------------------------------ calendar
\* hashlib.sha1(s.encode("utf-8")).hexdigest(): one digest per string
Sha1(str) == <<"sha1">> \o str

\* stable_uid(url + title) and its inline twin in the nchu build_calendar
Uid(v, url, title) ==
    [digest |-> Sha1(url \o title),
     ns |-> IF v = "moodle" THEN "@ilearning-ics" ELSE "@eeclass-ics"]

\* [DisplayAlarm(trigger=timedelta(days=-1)), DisplayAlarm(trigger=timedelta(hours=-3))]
Alarms == <<[days |-> -1, hours |-> 0], [days |-> 0, hours |-> -3]>>

\* e.name = f"[iLearning] {title}": the fixed part
EventPrefix == <<"[iLearning] ">>

\* e.description: the pieces of the f-string
MoodleDescription(ev) == <<<<"source:">>, ev.url, <<"course id:">>, ev.course_id>>

NchuDescription(url) == <<<<"source:">>, url>>

MoodleEvent(ev) ==
    [name |-> EventPrefix \o ev.title,
     begin |-> ev.due_at,
     end |-> ev.due_at,
     url |-> ev.url,
     description |-> MoodleDescription(ev),
     uid |-> Uid("moodle", ev.url, ev.title),
     alarms |-> Alarms]

\* mutant: build_calendar without its skip of undated items
NchuNeverSkipped(e) == FALSE

\* if not due_at: continue
NchuSkipped(e) == e.due_at = None

NchuEvent(e) ==
    [name |-> EventPrefix \o e.title,
     begin |-> Localize(e.due_at),
     end |-> Localize(e.due_at),
     url |-> e.url,
     description |-> NchuDescription(e.url),
     uid |-> Uid("nchu", e.url, e.title),
     alarms |-> Alarms]

\* build_calendar(events): cal.events is a set
build_calendar(v, events) ==
    IF v = "moodle"
    THEN {MoodleEvent(events[k]) : k \in 1..Len(events)}
    ELSE {NchuEvent(events[k]) : k \in {m \in 1..Len(events) : ~NchuSkipped(events[m])}}

\* ------------------------------------------------------------------ main(): inputs
IdNames == <<"1", "2", "3", "4">>

\* what a GET of a login page can bring: an exception of requests, an error status,
\* or a page with or without "form" ("username") in its text
GetKinds == {"neterr", "err", "ok_form", "ok_noform"}

\* what the login POST can bring; at_login: "login" in rr.url; error_text: the text
\* holds the script's error words
PostResponses ==
    { [kind |-> "neterr", at_login |-> FALSE, error_text |-> FALSE],
      [kind |-> "err", at_login |-> FALSE, error_text |-> FALSE] }
    \cup [kind : {"ok"}, at_login : BOOLEAN, error_text : BOOLEAN]

\* for path in ["/login/index.php", "/login.php"]
FallbackPaths == <<"/login/index.php", "/login.php">>

\* the rows of a listing page: a link that is no assignment's, and assignment links
\* with and without link text, in rows with and without a due date
AssignmentHref(v) ==
    IF v = "moodle" THEN <<"mod/assign/view.php", "7">>
    ELSE <<"/course/homework/content", "7">>

PageLinks(v) ==
    { [present |-> TRUE, href |-> <<"/user/profile">>, text |-> <<"T">>] }
    \cup [present : {TRUE}, href : {AssignmentHref(v)}, text : { <<"T">>, <<"sp">> }]

PageRows(v) ==
    { r \in [a : PageLinks(v),
             tds : { << <<"x">> >>, << <<"x">>, <<"due", "date", "D1">> >> }] :
        r.a.href = <<"/user/profile">> => Len(r.tds) = 1 }

\* a listing page GET: failed (an exception of requests or an error status), or a
\* page of at most MaxRows table rows
ListResponses(v) ==
    { [ok |-> FALSE, rows |-> <<>>] }
    \cup [ok : {TRUE}, rows : SeqsUpTo(PageRows(v), MaxRows)]

\* a detail page GET: failed, or a page of text blocks
DetailResponses ==
    { [ok |-> FALSE, blocks |-> <<>>],
      [ok |-> TRUE, blocks |-> << <<"x">> >>],
      [ok |-> TRUE, blocks |-> << <<"x">>, <<"jiaojiao", "qixian", "D1">> >>] }

\* ------------------------------------------------------------------ main(): Spec
Init ==
    /\ RowIdle
    /\ UidIdle
    /\ variant \in Variants
    /\ DEEP_FETCH \in (IF variant = "nchu" THEN BOOLEAN ELSE {FALSE})
    /\ COURSES \in {SubSeq(IdNames, 1, n) : n \in 0..MaxCourses}
    /\ pc = "login"
    /\ login_r = "none"
    /\ fb = 1
    /\ i = 1
    /\ items = <<>>
    /\ enriched = <<>>
    /\ all_events = <<>>
    /\ cal = {}
    /\ out_file = [exists |-> FALSE, events |-> {}]
    /\ crash_at = ""
    /\ auth_failed = FALSE
    /\ course_log = <<>>
    /\ dlog = <<>>

\* login() of the moodle script up to r.raise_for_status()
MoodleLoginGet ==
    /\ pc = "login" /\ variant = "moodle"
    /\ \E k \in GetKinds :
          /\ login_r' = k
          /\ IF k \in {"neterr", "err"}
             THEN pc' = "crash" /\ crash_at' = "login" /\ auth_failed' = TRUE
             ELSE pc' = "login_post" /\ UNCHANGED <<crash_at, auth_failed>>
    /\ UNCHANGED <<variant, rowvars, uidvars, DEEP_FETCH, COURSES, fb, i, items, enriched,
                   all_events, cal, out_file, course_log, dlog>>

\* login() of the nchu script: r = sess.get(login_url) and the test that follows
NchuLoginGet ==
    /\ pc = "login" /\ variant = "nchu"
    /\ \E k \in GetKinds :
          /\ login_r' = k
          /\ IF k = "neterr"
             THEN pc' = "crash" /\ crash_at' = "login" /\ auth_failed' = TRUE
             ELSE /\ pc' = IF k \in {"err", "ok_noform"} THEN "login_fallback"
                           ELSE "login_post"
                  /\ UNCHANGED <<crash_at, auth_failed>>
    /\ fb' = 1
    /\ UNCHANGED <<variant, rowvars, uidvars, DEEP_FETCH, COURSES, i, items, enriched,
                   all_events, cal, out_file, course_log, dlog>>

\* one turn of: for path in [...]: rr = sess.get(...); if rr.ok and (...): r = rr; break
NchuLoginFallback ==
    /\ pc = "login_fallback"
    /\ \E k \in GetKinds :
          IF k = "neterr"
          THEN /\ pc' = "crash" /\ crash_at' = "login" /\ auth_failed' = TRUE
               /\ UNCHANGED <<login_r, fb>>
          ELSE IF k = "ok_form"
          THEN /\ login_r' = k /\ pc' = "login_post"
               /\ UNCHANGED <<fb, crash_at, auth_failed>>
          ELSE /\ fb' = fb + 1
               /\ pc' = IF fb = Len(FallbackPaths) THEN "login_post" ELSE "login_fallback"
               /\ auth_failed' = (fb = Len(FallbackPaths) /\ login_r = "err")
               /\ UNCHANGED <<login_r, crash_at>>
    /\ UNCHANGED <<variant, rowvars, uidvars, DEEP_FETCH, COURSES, i, items, enriched,
                   all_events, cal, out_file, course_log, dlog>>

\* the error test on the POST's response
LoginRefused(v, resp) ==
    IF v = "moodle" THEN resp.error_text ELSE resp.at_login /\ resp.error_text

\* rr = sess.post(...); rr.raise_for_status(); if <error words>: sys.exit(2)
LoginPost ==
    /\ pc = "login_post"
    /\ \E resp \in PostResponses :
          IF resp.kind # "ok"
          THEN pc' = "crash" /\ crash_at' = "login" /\ UNCHANGED auth_failed
          ELSE IF LoginRefused(variant, resp)
          THEN pc' = "exit" /\ auth_failed' = TRUE /\ UNCHANGED crash_at
          ELSE pc' = "loop" /\ UNCHANGED <<crash_at, auth_failed>>
    \* login()'s locals end with the call
    /\ login_r' = "none"
    /\ fb' = 1
    /\ UNCHANGED <<variant, rowvars, uidvars, DEEP_FETCH, COURSES, i, items, enriched,
                   all_events, cal, out_file, course_log, dlog>>

\* the listing GET of the moodle main() sits in try/except Exception; the nchu
\* main() calls sess.get and raise_for_status bare
ListFetchCaught(v) == v = "moodle"

\* urljoin(BASE, f"/mod/assign/index.php?id={course_id}") is fetched; the events
\* carry the course id
CourseId(k) == <<COURSES[k]>>

\* to_abs(u) for the k-th entry of HOMEWORK_URLS
ListUrl(k) == to_abs(<<"/course/homework", COURSES[k]>>)

\* one turn of the moodle loop: fetch_course_assignments(cid), all_events.extend(evs)
MoodleCourse ==
    /\ pc = "loop" /\ variant = "moodle" /\ i <= Len(COURSES)
    /\ \E resp \in ListResponses(variant) :
          IF resp.ok
          THEN LET evs == parse_assign_table(resp.rows, CourseId(i))
               IN /\ all_events' = all_events \o evs
                  /\ course_log' = Append(course_log, [ok |-> TRUE, events |-> evs])
                  /\ i' = i + 1
                  /\ UNCHANGED <<pc, crash_at>>
          ELSE /\ course_log' = Append(course_log, [ok |-> FALSE, events |-> <<>>])
               /\ IF ListFetchCaught(variant)
                  THEN i' = i + 1 /\ UNCHANGED <<pc, crash_at>>
                  ELSE pc' = "crash" /\ crash_at' = "list" /\ UNCHANGED i
               /\ UNCHANGED all_events
    /\ UNCHANGED <<variant, rowvars, uidvars, DEEP_FETCH, COURSES, login_r, fb, items, enriched,
                   cal, out_file, auth_failed, dlog>>

\* one turn of the nchu loop up to items = parse_list_page(r.text, absu)
NchuFetch ==
    /\ pc = "loop" /\ variant = "nchu" /\ i <= Len(COURSES)
    /\ \E resp \in ListResponses(variant) :
          IF resp.ok
          THEN /\ items' = parse_list_page(resp.rows, ListUrl(i))
               /\ pc' = IF DEEP_FETCH THEN "deep" ELSE "filter"
               /\ course_log' = Append(course_log, [ok |-> TRUE, events |-> <<>>])
               /\ UNCHANGED <<i, crash_at>>
          ELSE /\ course_log' = Append(course_log, [ok |-> FALSE, events |-> <<>>])
               /\ IF ListFetchCaught(variant)
                  THEN i' = i + 1 /\ UNCHANGED <<pc, crash_at>>
                  ELSE pc' = "crash" /\ crash_at' = "list" /\ UNCHANGED i
               /\ UNCHANGED items
    /\ enriched' = <<>>
    /\ dlog' = <<>>
    /\ UNCHANGED <<variant, rowvars, uidvars, DEEP_FETCH, COURSES, login_r, fb, all_events, cal,
                   out_file, auth_failed>>

\* mutant: every candidate's detail page is requested
NeedsDetailAlways(it) == TRUE

\* if dt0 is None: the candidate's detail page is requested
NeedsDetail(it) == it.due_at = None

\* mutant: the detail GET without its try/except
DetailFetchUncaught == FALSE

\* the detail GET and parse_detail_due sit in try/except Exception
DetailFetchCaught == TRUE

\* dt1 = parse_detail_due(rr.text) or dt0
DetailDue(blocks, dt0) ==
    LET d == parse_detail_due(blocks) IN IF d # None THEN d ELSE dt0

\* one turn of: for title, dt0, url in items: ... enriched.append((title, dt1, url))
NchuDeepItem ==
    /\ pc = "deep" /\ Len(enriched) < Len(items)
    /\ LET it == items[Len(enriched) + 1] IN
          IF NeedsDetail(it)
          THEN \E resp \in DetailResponses :
                 /\ dlog' = Append(dlog, [requested |-> TRUE, resp |-> resp])
                 /\ IF resp.ok
                    THEN /\ enriched' = Append(enriched,
                                [it EXCEPT !.due_at = DetailDue(resp.blocks, it.due_at)])
                         /\ UNCHANGED <<pc, crash_at>>
                    ELSE IF DetailFetchCaught
                    THEN /\ enriched' = Append(enriched, it)
                         /\ UNCHANGED <<pc, crash_at>>
                    ELSE /\ pc' = "crash" /\ crash_at' = "detail"
                         /\ UNCHANGED enriched
          ELSE /\ dlog' = Append(dlog, [requested |-> FALSE,
                                        resp |-> [ok |-> FALSE, blocks |-> <<>>]])
               /\ enriched' = Append(enriched, it)
               /\ UNCHANGED <<pc, crash_at>>
    /\ UNCHANGED <<variant, rowvars, uidvars, DEEP_FETCH, COURSES, login_r, fb, i, items,
                   all_events, cal, out_file, auth_failed, course_log>>

\* items = enriched
NchuDeepDone ==
    /\ pc = "deep" /\ Len(enriched) = Len(items)
    /\ items' = enriched
    /\ pc' = "filter"
    /\ UNCHANGED <<variant, rowvars, uidvars, DEEP_FETCH, COURSES, login_r, fb, i, enriched,
                   all_events, cal, out_file, crash_at, auth_failed, course_log, dlog>>

\* items = [(t, d, url) for (t, d, url) in items if t]
TitledItems(its) == SelectSeq(its, LAMBDA it : it.title # <<>>)

\* the filter on titles and all_events.extend(items)
NchuFilter ==
    /\ pc = "filter"
    /\ all_events' = all_events \o TitledItems(items)
    /\ course_log' = [course_log EXCEPT ![i].events = TitledItems(items)]
    /\ i' = i + 1
    /\ pc' = "loop"
    \* the turn's locals are dead from here on: the next turn assigns them anew
    /\ items' = <<>>
    /\ enriched' = <<>>
    /\ dlog' = <<>>
    /\ UNCHANGED <<variant, rowvars, uidvars, DEEP_FETCH, COURSES, login_r, fb, cal, out_file,
                   crash_at, auth_failed>>

\* cal = build_calendar(all_events)
BuildCalendar ==
    /\ pc = "loop" /\ i > Len(COURSES)
    /\ cal' = build_calendar(variant, all_events)
    /\ pc' = "write"
    /\ UNCHANGED <<variant, rowvars, uidvars, DEEP_FETCH, COURSES, login_r, fb, i, items,
                   enriched, all_events, out_file, crash_at, auth_failed, course_log,
                   dlog>>

\* os.makedirs(...); with open(out_path, "w") as f: f.writelines(cal)
WriteFile ==
    /\ pc = "write"
    /\ out_file' = [exists |-> TRUE, events |-> cal]
    /\ pc' = "done"
    /\ UNCHANGED <<variant, rowvars, uidvars, DEEP_FETCH, COURSES, login_r, fb, i, items,
                   enriched, all_events, cal, crash_at, auth_failed, course_log, dlog>>

Next ==
    \/ MoodleLoginGet
    \/ NchuLoginGet
    \/ NchuLoginFallback
    \/ LoginPost
    \/ MoodleCourse
    \/ NchuFetch
    \/ NchuDeepItem
    \/ NchuDeepDone
    \/ NchuFilter
    \/ BuildCalendar
    \/ WriteFile

Spec == Init /\ [][Next]_vars

\* ------------------------------------------------------------------ SpecUid
\* The uid of two (url, title) pairs, as build_calendar computes it.
Chars == {"a", "b"}

Strings(lo) == UNION { [1..k -> Chars] : k \in lo..MaxStr }

UidInit ==
    /\ RowIdle
    /\ MainIdle
    /\ variant \in Variants
    /\ uid_in \in [1..2 -> [url : Strings(1), title : Strings(1)]]
    /\ uid_out = <<>>

\* e.uid = stable_uid(ev["url"] + ev["title"]), for each pair
ComputeUids ==
    /\ uid_out = <<>>
    /\ uid_out' = [k \in 1..2 |-> Uid(variant, uid_in[k].url, uid_in[k].title)]
    /\ UNCHANGED <<variant, rowvars, mainvars, uid_in>>

UidNext == ComputeUids

SpecUid == UidInit /\ [][UidNext]_vars

\* ------------------------------------------------------------------ claims on Spec
Range(f) == {f[k] : k \in DOMAIN f}

\* the calendar shows the candidate e as an event
InCalendar(e, events) ==
    \E ev \in events :
        /\ ev.url = e.url
        /\ ev.name = EventPrefix \o e.title
        /\ ev.begin.d = e.due_at.d

\* C1: in both variants a failing page fetch aborts nothing: the failing course is
\* skipped, the others are fetched, and the file is written with the events of
\* every course whose fetch succeeded.
C1_ListFailureIsolated ==
    /\ crash_at # "list"
    /\ pc = "done" =>
          /\ out_file.exists
          /\ Len(course_log) = Len(COURSES)
          /\ \A c \in 1..Len(course_log) :
                 \A e \in Range(course_log[c].events) :
                     e.due_at # None => InCalendar(e, out_file.events)

\* C2: in both variants, once the login page proved unreachable or the login was
\* refused, no course page is fetched and no calendar file is written.
C2_AuthFailureFatal ==
    auth_failed => (course_log = <<>> /\ ~out_file.exists)

\* C3: every event of the calendar has a due instant, a date parsed from the page
\* and set in the local zone, and it is the due date of a resolved candidate; a
\* candidate without a due date gives no event.
C3_EventsHaveDueInstant ==
    \A ev \in cal \cup out_file.events :
        /\ ev.begin # None
        /\ ev.begin.tz = "local"
        /\ ev.begin.d \in {1, 2, 3}
        /\ ev.end = ev.begin
        /\ \E e \in Range(all_events) :
               e.due_at # None /\ e.due_at.d = ev.begin.d /\ e.url = ev.url

C3_Witness ==
    /\ pc = "done"
    /\ variant = "nchu"
    /\ DEEP_FETCH
    /\ Len(all_events) = 2
    /\ all_events[1].due_at = None
    /\ all_events[2].due_at # None
    /\ Cardinality(out_file.events) = 1

\* C4: in both variants no event of the calendar has an empty title.
C4_NoEmptyTitle ==
    \A ev \in cal : ev.name # EventPrefix

\* what a candidate's own detail page says: a date when one of its blocks has one
PageDate(blocks) ==
    IF \E b \in 1..Len(blocks) : \E k \in 1..Len(blocks[b]) : blocks[b][k] \in DateAtoms
    THEN "dated" ELSE "undated"

\* C5: a failed detail request leaves only its own candidate unresolved: the run
\* does not end there, and every candidate processed so far has its own title and
\* URL and the due date of the listing or of its own detail page.
C5_DetailFailureIsolated ==
    /\ crash_at # "detail"
    /\ pc = "deep" =>
          /\ Len(dlog) = Len(enriched)
          /\ \A k \in 1..Len(enriched) :
                 /\ enriched[k].title = items[k].title
                 /\ enriched[k].url = items[k].url
                 /\ (dlog[k].requested /\ ~dlog[k].resp.ok)
                        => enriched[k].due_at = None
                 /\ (dlog[k].requested /\ dlog[k].resp.ok)
                        => (enriched[k].due_at # None
                               <=> PageDate(dlog[k].resp.blocks) = "dated")
                 /\ ~dlog[k].requested => enriched[k].due_at = items[k].due_at

C5_Witness ==
    /\ pc = "deep"
    /\ Len(items) = 2
    /\ Len(enriched) = 2
    /\ dlog[1].requested /\ ~dlog[1].resp.ok
    /\ dlog[2].requested /\ dlog[2].resp.ok
    /\ enriched[1].due_at = None
    /\ enriched[2].due_at # None

\* C8: in both variants the description of every event holds the event's URL and
\* the id of a course whose page listed the assignment.
Holds(description, piece) == \E k \in 1..Len(description) : description[k] = piece

C8_DescriptionHasUrlAndCourse ==
    \A ev \in cal :
        /\ Holds(ev.description, ev.url)
        /\ \E c \in 1..Len(course_log) :
               /\ \E e \in Range(course_log[c].events) : e.url = ev.url
               /\ Holds(ev.description, <<COURSES[c]>>)

\* C10: a detail page is requested exactly for the candidates without a due date
\* and only with DEEP_FETCH on; a candidate dated by the listing keeps that date;
\* the enriched list has the candidates of the page, in order, with their titles
\* and URLs.
C10_DetailRequestIffUnresolved ==
    /\ ~DEEP_FETCH => (pc # "deep" /\ dlog = <<>>)
    /\ pc = "deep" =>
          /\ Len(dlog) = Len(enriched)
          /\ Len(enriched) <= Len(items)
          /\ \A k \in 1..Len(enriched) :
                 /\ dlog[k].requested <=> items[k].due_at = None
                 /\ items[k].due_at # None => enriched[k].due_at = items[k].due_at
                 /\ enriched[k].title = items[k].title
                 /\ enriched[k].url = items[k].url
    /\ (pc = "filter" /\ DEEP_FETCH) => Len(items) = Len(dlog)

C10_Witness ==
    /\ pc = "filter"
    /\ DEEP_FETCH
    /\ Len(items) = 2
    /\ ~dlog[1].requested
    /\ dlog[2].requested
    /\ items[1].due_at # None
    /\ items[1].title # items[2].title

\* ------------------------------------------------------------------ claims on SpecUid
\* C7: equal (url, title) pairs have equal uids, and pairs that differ in the URL
\* or in the title have different uids.
C7_UidDecidesPair ==
    uid_out # <<>> => ((uid_in[1] = uid_in[2]) <=> (uid_out[1] = uid_out[2]))

====
